---- MODULE Spec2Model ----
(***************************************************************************)
(* The rustdoc "implementors" scripts of alloc-wg.  Each generated script  *)
(* is an immediately-invoked function that builds one table                *)
(*     implementors = { "alloc_wg": [ {text, synthetic, types}, ... ] }    *)
(* and hands it off: to window.register_implementors when that property is *)
(* truthy at the instant the script runs, otherwise into                   *)
(* window.pending_implementors.  The model covers an execution of a page   *)
(* in which the two scripts are loaded, in any order and any number of     *)
(* times, while the host page registers, replaces or removes the consumer  *)
(* and drains the pending slot.                                            *)
(***************************************************************************)
EXTENDS Integers, Sequences, FiniteSets, TLC

\* Number of script loads in one execution of the page.
MaxLoads == 3
\* Number of times the host page drains the pending slot.
MaxDrains == 1

(***************************************************************************)
(* The tables, as the generator baked them into the two files.             *)
(***************************************************************************)
\* src/implementors/core/marker/trait.Send.js, line 2: the array literal assigned to implementors["alloc_wg"]
SendRecords ==
  <<
    [text |-> "impl <a class=\"trait\" href=\"https://doc.rust-lang.org/nightly/core/marker/trait.Send.html\" title=\"trait core::marker::Send\">Send</a> for <a class=\"struct\" href=\"alloc_wg/alloc/struct.LayoutErr.html\" title=\"struct alloc_wg::alloc::LayoutErr\">LayoutErr</a>",
     synthetic |-> TRUE,
     types |-> <<"alloc_wg::alloc::layout::LayoutErr">>],
    [text |-> "impl <a class=\"trait\" href=\"https://doc.rust-lang.org/nightly/core/marker/trait.Send.html\" title=\"trait core::marker::Send\">Send</a> for <a class=\"struct\" href=\"alloc_wg/alloc/struct.NonZeroLayout.html\" title=\"struct alloc_wg::alloc::NonZeroLayout\">NonZeroLayout</a>",
     synthetic |-> TRUE,
     types |-> <<"alloc_wg::alloc::layout::NonZeroLayout">>],
    [text |-> "impl <a class=\"trait\" href=\"https://doc.rust-lang.org/nightly/core/marker/trait.Send.html\" title=\"trait core::marker::Send\">Send</a> for <a class=\"struct\" href=\"alloc_wg/alloc/struct.CapacityOverflow.html\" title=\"struct alloc_wg::alloc::CapacityOverflow\">CapacityOverflow</a>",
     synthetic |-> TRUE,
     types |-> <<"alloc_wg::alloc::CapacityOverflow">>],
    [text |-> "impl <a class=\"trait\" href=\"https://doc.rust-lang.org/nightly/core/marker/trait.Send.html\" title=\"trait core::marker::Send\">Send</a> for <a class=\"struct\" href=\"alloc_wg/alloc/struct.AllocErr.html\" title=\"struct alloc_wg::alloc::AllocErr\">AllocErr</a>",
     synthetic |-> TRUE,
     types |-> <<"alloc_wg::alloc::AllocErr">>],
    [text |-> "impl <a class=\"trait\" href=\"https://doc.rust-lang.org/nightly/core/marker/trait.Send.html\" title=\"trait core::marker::Send\">Send</a> for <a class=\"struct\" href=\"alloc_wg/alloc/struct.Global.html\" title=\"struct alloc_wg::alloc::Global\">Global</a>",
     synthetic |-> TRUE,
     types |-> <<"alloc_wg::alloc::Global">>],
    [text |-> "impl&lt;A&gt; <a class=\"trait\" href=\"https://doc.rust-lang.org/nightly/core/marker/trait.Send.html\" title=\"trait core::marker::Send\">Send</a> for <a class=\"enum\" href=\"alloc_wg/collections/enum.CollectionAllocErr.html\" title=\"enum alloc_wg::collections::CollectionAllocErr\">CollectionAllocErr</a>&lt;A&gt; <span class=\"where fmt-newline\">where<br>&nbsp;&nbsp;&nbsp;&nbsp;&lt;A as <a class=\"trait\" href=\"alloc_wg/alloc/trait.AllocRef.html\" title=\"trait alloc_wg::alloc::AllocRef\">AllocRef</a>&gt;::<a class=\"type\" href=\"alloc_wg/alloc/trait.AllocRef.html#associatedtype.Error\" title=\"type alloc_wg::alloc::AllocRef::Error\">Error</a>: <a class=\"trait\" href=\"https://doc.rust-lang.org/nightly/core/marker/trait.Send.html\" title=\"trait core::marker::Send\">Send</a>,&nbsp;</span>",
     synthetic |-> TRUE,
     types |-> <<"alloc_wg::collections::CollectionAllocErr">>],
    [text |-> "impl&lt;T, A&gt; <a class=\"trait\" href=\"https://doc.rust-lang.org/nightly/core/marker/trait.Send.html\" title=\"trait core::marker::Send\">Send</a> for <a class=\"struct\" href=\"alloc_wg/raw_vec/struct.RawVec.html\" title=\"struct alloc_wg::raw_vec::RawVec\">RawVec</a>&lt;T, A&gt; <span class=\"where fmt-newline\">where<br>&nbsp;&nbsp;&nbsp;&nbsp;T: <a class=\"trait\" href=\"https://doc.rust-lang.org/nightly/core/marker/trait.Send.html\" title=\"trait core::marker::Send\">Send</a>,<br>&nbsp;&nbsp;&nbsp;&nbsp;&lt;A as <a class=\"trait\" href=\"alloc_wg/alloc/trait.DeallocRef.html\" title=\"trait alloc_wg::alloc::DeallocRef\">DeallocRef</a>&gt;::<a class=\"type\" href=\"alloc_wg/alloc/trait.DeallocRef.html#associatedtype.BuildAlloc\" title=\"type alloc_wg::alloc::DeallocRef::BuildAlloc\">BuildAlloc</a>: <a class=\"trait\" href=\"https://doc.rust-lang.org/nightly/core/marker/trait.Send.html\" title=\"trait core::marker::Send\">Send</a>,&nbsp;</span>",
     synthetic |-> TRUE,
     types |-> <<"alloc_wg::raw_vec::RawVec">>],
    [text |-> "impl&lt;A&gt; <a class=\"trait\" href=\"https://doc.rust-lang.org/nightly/core/marker/trait.Send.html\" title=\"trait core::marker::Send\">Send</a> for <a class=\"struct\" href=\"alloc_wg/string/struct.String.html\" title=\"struct alloc_wg::string::String\">String</a>&lt;A&gt; <span class=\"where fmt-newline\">where<br>&nbsp;&nbsp;&nbsp;&nbsp;&lt;A as <a class=\"trait\" href=\"alloc_wg/alloc/trait.DeallocRef.html\" title=\"trait alloc_wg::alloc::DeallocRef\">DeallocRef</a>&gt;::<a class=\"type\" href=\"alloc_wg/alloc/trait.DeallocRef.html#associatedtype.BuildAlloc\" title=\"type alloc_wg::alloc::DeallocRef::BuildAlloc\">BuildAlloc</a>: <a class=\"trait\" href=\"https://doc.rust-lang.org/nightly/core/marker/trait.Send.html\" title=\"trait core::marker::Send\">Send</a>,&nbsp;</span>",
     synthetic |-> TRUE,
     types |-> <<"alloc_wg::string::String">>],
    [text |-> "impl&lt;A&gt; <a class=\"trait\" href=\"https://doc.rust-lang.org/nightly/core/marker/trait.Send.html\" title=\"trait core::marker::Send\">Send</a> for <a class=\"struct\" href=\"alloc_wg/string/struct.FromUtf8Error.html\" title=\"struct alloc_wg::string::FromUtf8Error\">FromUtf8Error</a>&lt;A&gt; <span class=\"where fmt-newline\">where<br>&nbsp;&nbsp;&nbsp;&nbsp;&lt;A as <a class=\"trait\" href=\"alloc_wg/alloc/trait.DeallocRef.html\" title=\"trait alloc_wg::alloc::DeallocRef\">DeallocRef</a>&gt;::<a class=\"type\" href=\"alloc_wg/alloc/trait.DeallocRef.html#associatedtype.BuildAlloc\" title=\"type alloc_wg::alloc::DeallocRef::BuildAlloc\">BuildAlloc</a>: <a class=\"trait\" href=\"https://doc.rust-lang.org/nightly/core/marker/trait.Send.html\" title=\"trait core::marker::Send\">Send</a>,&nbsp;</span>",
     synthetic |-> TRUE,
     types |-> <<"alloc_wg::string::FromUtf8Error">>],
    [text |-> "impl <a class=\"trait\" href=\"https://doc.rust-lang.org/nightly/core/marker/trait.Send.html\" title=\"trait core::marker::Send\">Send</a> for <a class=\"struct\" href=\"alloc_wg/string/struct.FromUtf16Error.html\" title=\"struct alloc_wg::string::FromUtf16Error\">FromUtf16Error</a>",
     synthetic |-> TRUE,
     types |-> <<"alloc_wg::string::FromUtf16Error">>],
    [text |-> "impl&lt;T, A&gt; <a class=\"trait\" href=\"https://doc.rust-lang.org/nightly/core/marker/trait.Send.html\" title=\"trait core::marker::Send\">Send</a> for <a class=\"struct\" href=\"alloc_wg/vec/struct.Vec.html\" title=\"struct alloc_wg::vec::Vec\">Vec</a>&lt;T, A&gt; <span class=\"where fmt-newline\">where<br>&nbsp;&nbsp;&nbsp;&nbsp;T: <a class=\"trait\" href=\"https://doc.rust-lang.org/nightly/core/marker/trait.Send.html\" title=\"trait core::marker::Send\">Send</a>,<br>&nbsp;&nbsp;&nbsp;&nbsp;&lt;A as <a class=\"trait\" href=\"alloc_wg/alloc/trait.DeallocRef.html\" title=\"trait alloc_wg::alloc::DeallocRef\">DeallocRef</a>&gt;::<a class=\"type\" href=\"alloc_wg/alloc/trait.DeallocRef.html#associatedtype.BuildAlloc\" title=\"type alloc_wg::alloc::DeallocRef::BuildAlloc\">BuildAlloc</a>: <a class=\"trait\" href=\"https://doc.rust-lang.org/nightly/core/marker/trait.Send.html\" title=\"trait core::marker::Send\">Send</a>,&nbsp;</span>",
     synthetic |-> TRUE,
     types |-> <<"alloc_wg::vec::Vec">>],
    [text |-> "impl&lt;'a, I, A&gt; <a class=\"trait\" href=\"https://doc.rust-lang.org/nightly/core/marker/trait.Send.html\" title=\"trait core::marker::Send\">Send</a> for <a class=\"struct\" href=\"alloc_wg/vec/struct.Splice.html\" title=\"struct alloc_wg::vec::Splice\">Splice</a>&lt;'a, I, A&gt; <span class=\"where fmt-newline\">where<br>&nbsp;&nbsp;&nbsp;&nbsp;I: <a class=\"trait\" href=\"https://doc.rust-lang.org/nightly/core/marker/trait.Send.html\" title=\"trait core::marker::Send\">Send</a>,<br>&nbsp;&nbsp;&nbsp;&nbsp;&lt;I as <a class=\"trait\" href=\"https://doc.rust-lang.org/nightly/core/iter/traits/iterator/trait.Iterator.html\" title=\"trait core::iter::traits::iterator::Iterator\">Iterator</a>&gt;::<a class=\"type\" href=\"https://doc.rust-lang.org/nightly/core/iter/traits/iterator/trait.Iterator.html#associatedtype.Item\" title=\"type core::iter::traits::iterator::Iterator::Item\">Item</a>: <a class=\"trait\" href=\"https://doc.rust-lang.org/nightly/core/marker/trait.Send.html\" title=\"trait core::marker::Send\">Send</a>,&nbsp;</span>",
     synthetic |-> TRUE,
     types |-> <<"alloc_wg::vec::Splice">>],
    [text |-> "impl&lt;'a, T, F, A&gt; <a class=\"trait\" href=\"https://doc.rust-lang.org/nightly/core/marker/trait.Send.html\" title=\"trait core::marker::Send\">Send</a> for <a class=\"struct\" href=\"alloc_wg/vec/struct.DrainFilter.html\" title=\"struct alloc_wg::vec::DrainFilter\">DrainFilter</a>&lt;'a, T, F, A&gt; <span class=\"where fmt-newline\">where<br>&nbsp;&nbsp;&nbsp;&nbsp;F: <a class=\"trait\" href=\"https://doc.rust-lang.org/nightly/core/marker/trait.Send.html\" title=\"trait core::marker::Send\">Send</a>,<br>&nbsp;&nbsp;&nbsp;&nbsp;T: <a class=\"trait\" href=\"https://doc.rust-lang.org/nightly/core/marker/trait.Send.html\" title=\"trait core::marker::Send\">Send</a>,<br>&nbsp;&nbsp;&nbsp;&nbsp;&lt;A as <a class=\"trait\" href=\"alloc_wg/alloc/trait.DeallocRef.html\" title=\"trait alloc_wg::alloc::DeallocRef\">DeallocRef</a>&gt;::<a class=\"type\" href=\"alloc_wg/alloc/trait.DeallocRef.html#associatedtype.BuildAlloc\" title=\"type alloc_wg::alloc::DeallocRef::BuildAlloc\">BuildAlloc</a>: <a class=\"trait\" href=\"https://doc.rust-lang.org/nightly/core/marker/trait.Send.html\" title=\"trait core::marker::Send\">Send</a>,&nbsp;</span>",
     synthetic |-> TRUE,
     types |-> <<"alloc_wg::vec::DrainFilter">>],
    [text |-> "impl&lt;T:&nbsp;?<a class=\"trait\" href=\"https://doc.rust-lang.org/nightly/core/marker/trait.Sized.html\" title=\"trait core::marker::Sized\">Sized</a>, A:&nbsp;<a class=\"trait\" href=\"alloc_wg/alloc/trait.DeallocRef.html\" title=\"trait alloc_wg::alloc::DeallocRef\">DeallocRef</a> + <a class=\"trait\" href=\"https://doc.rust-lang.org/nightly/core/marker/trait.Send.html\" title=\"trait core::marker::Send\">Send</a>&gt; <a class=\"trait\" href=\"https://doc.rust-lang.org/nightly/core/marker/trait.Send.html\" title=\"trait core::marker::Send\">Send</a> for <a class=\"struct\" href=\"alloc_wg/boxed/struct.Box.html\" title=\"struct alloc_wg::boxed::Box\">Box</a>&lt;T, A&gt;",
     synthetic |-> FALSE,
     types |-> <<"alloc_wg::boxed::Box">>],
    [text |-> "impl&lt;'_, A:&nbsp;<a class=\"trait\" href=\"alloc_wg/alloc/trait.DeallocRef.html\" title=\"trait alloc_wg::alloc::DeallocRef\">DeallocRef</a>&gt; <a class=\"trait\" href=\"https://doc.rust-lang.org/nightly/core/marker/trait.Send.html\" title=\"trait core::marker::Send\">Send</a> for <a class=\"struct\" href=\"alloc_wg/string/struct.Drain.html\" title=\"struct alloc_wg::string::Drain\">Drain</a>&lt;'_, A&gt;",
     synthetic |-> FALSE,
     types |-> <<"alloc_wg::string::Drain">>],
    [text |-> "impl&lt;T:&nbsp;<a class=\"trait\" href=\"https://doc.rust-lang.org/nightly/core/marker/trait.Send.html\" title=\"trait core::marker::Send\">Send</a>&gt; <a class=\"trait\" href=\"https://doc.rust-lang.org/nightly/core/marker/trait.Send.html\" title=\"trait core::marker::Send\">Send</a> for <a class=\"struct\" href=\"alloc_wg/vec/struct.IntoIter.html\" title=\"struct alloc_wg::vec::IntoIter\">IntoIter</a>&lt;T&gt;",
     synthetic |-> FALSE,
     types |-> <<"alloc_wg::vec::IntoIter">>],
    [text |-> "impl&lt;'_, T:&nbsp;<a class=\"trait\" href=\"https://doc.rust-lang.org/nightly/core/marker/trait.Send.html\" title=\"trait core::marker::Send\">Send</a>, A:&nbsp;<a class=\"trait\" href=\"alloc_wg/alloc/trait.DeallocRef.html\" title=\"trait alloc_wg::alloc::DeallocRef\">DeallocRef</a>&gt; <a class=\"trait\" href=\"https://doc.rust-lang.org/nightly/core/marker/trait.Send.html\" title=\"trait core::marker::Send\">Send</a> for <a class=\"struct\" href=\"alloc_wg/vec/struct.Drain.html\" title=\"struct alloc_wg::vec::Drain\">Drain</a>&lt;'_, T, A&gt;",
     synthetic |-> FALSE,
     types |-> <<"alloc_wg::vec::Drain">>]
  >>

\* src/unnamed/part_000, line 2: the array literal assigned to implementors["alloc_wg"]
DropRecords ==
  <<
    [text |-> "impl&lt;T:&nbsp;?<a class=\"trait\" href=\"https://doc.rust-lang.org/nightly/core/marker/trait.Sized.html\" title=\"trait core::marker::Sized\">Sized</a>, A:&nbsp;<a class=\"trait\" href=\"alloc_wg/alloc/trait.DeallocRef.html\" title=\"trait alloc_wg::alloc::DeallocRef\">DeallocRef</a>&gt; <a class=\"trait\" href=\"https://doc.rust-lang.org/nightly/core/ops/drop/trait.Drop.html\" title=\"trait core::ops::drop::Drop\">Drop</a> for <a class=\"struct\" href=\"alloc_wg/boxed/struct.Box.html\" title=\"struct alloc_wg::boxed::Box\">Box</a>&lt;T, A&gt;",
     synthetic |-> FALSE,
     types |-> <<"alloc_wg::boxed::Box">>],
    [text |-> "impl&lt;T, A:&nbsp;<a class=\"trait\" href=\"alloc_wg/alloc/trait.DeallocRef.html\" title=\"trait alloc_wg::alloc::DeallocRef\">DeallocRef</a>&gt; <a class=\"trait\" href=\"https://doc.rust-lang.org/nightly/core/ops/drop/trait.Drop.html\" title=\"trait core::ops::drop::Drop\">Drop</a> for <a class=\"struct\" href=\"alloc_wg/raw_vec/struct.RawVec.html\" title=\"struct alloc_wg::raw_vec::RawVec\">RawVec</a>&lt;T, A&gt;",
     synthetic |-> FALSE,
     types |-> <<"alloc_wg::raw_vec::RawVec">>],
    [text |-> "impl&lt;'_, A:&nbsp;<a class=\"trait\" href=\"alloc_wg/alloc/trait.DeallocRef.html\" title=\"trait alloc_wg::alloc::DeallocRef\">DeallocRef</a>&gt; <a class=\"trait\" href=\"https://doc.rust-lang.org/nightly/core/ops/drop/trait.Drop.html\" title=\"trait core::ops::drop::Drop\">Drop</a> for <a class=\"struct\" href=\"alloc_wg/string/struct.Drain.html\" title=\"struct alloc_wg::string::Drain\">Drain</a>&lt;'_, A&gt;",
     synthetic |-> FALSE,
     types |-> <<"alloc_wg::string::Drain">>],
    [text |-> "impl&lt;T, A:&nbsp;<a class=\"trait\" href=\"alloc_wg/alloc/trait.DeallocRef.html\" title=\"trait alloc_wg::alloc::DeallocRef\">DeallocRef</a>&gt; <a class=\"trait\" href=\"https://doc.rust-lang.org/nightly/core/ops/drop/trait.Drop.html\" title=\"trait core::ops::drop::Drop\">Drop</a> for <a class=\"struct\" href=\"alloc_wg/vec/struct.Vec.html\" title=\"struct alloc_wg::vec::Vec\">Vec</a>&lt;T, A&gt;",
     synthetic |-> FALSE,
     types |-> <<"alloc_wg::vec::Vec">>],
    [text |-> "impl&lt;T&gt; <a class=\"trait\" href=\"https://doc.rust-lang.org/nightly/core/ops/drop/trait.Drop.html\" title=\"trait core::ops::drop::Drop\">Drop</a> for <a class=\"struct\" href=\"alloc_wg/vec/struct.IntoIter.html\" title=\"struct alloc_wg::vec::IntoIter\">IntoIter</a>&lt;T&gt;",
     synthetic |-> FALSE,
     types |-> <<"alloc_wg::vec::IntoIter">>],
    [text |-> "impl&lt;'_, T, A:&nbsp;<a class=\"trait\" href=\"alloc_wg/alloc/trait.DeallocRef.html\" title=\"trait alloc_wg::alloc::DeallocRef\">DeallocRef</a>&gt; <a class=\"trait\" href=\"https://doc.rust-lang.org/nightly/core/ops/drop/trait.Drop.html\" title=\"trait core::ops::drop::Drop\">Drop</a> for <a class=\"struct\" href=\"alloc_wg/vec/struct.Drain.html\" title=\"struct alloc_wg::vec::Drain\">Drain</a>&lt;'_, T, A&gt;",
     synthetic |-> FALSE,
     types |-> <<"alloc_wg::vec::Drain">>],
    [text |-> "impl&lt;'_, I:&nbsp;<a class=\"trait\" href=\"https://doc.rust-lang.org/nightly/core/iter/traits/iterator/trait.Iterator.html\" title=\"trait core::iter::traits::iterator::Iterator\">Iterator</a>, A&gt; <a class=\"trait\" href=\"https://doc.rust-lang.org/nightly/core/ops/drop/trait.Drop.html\" title=\"trait core::ops::drop::Drop\">Drop</a> for <a class=\"struct\" href=\"alloc_wg/vec/struct.Splice.html\" title=\"struct alloc_wg::vec::Splice\">Splice</a>&lt;'_, I, A&gt; <span class=\"where fmt-newline\">where<br>&nbsp;&nbsp;&nbsp;&nbsp;A: <a class=\"trait\" href=\"alloc_wg/alloc/trait.ReallocRef.html\" title=\"trait alloc_wg::alloc::ReallocRef\">ReallocRef</a>,&nbsp;</span>",
     synthetic |-> FALSE,
     types |-> <<"alloc_wg::vec::Splice">>],
    [text |-> "impl&lt;'_, T, F, A:&nbsp;<a class=\"trait\" href=\"alloc_wg/alloc/trait.DeallocRef.html\" title=\"trait alloc_wg::alloc::DeallocRef\">DeallocRef</a>&gt; <a class=\"trait\" href=\"https://doc.rust-lang.org/nightly/core/ops/drop/trait.Drop.html\" title=\"trait core::ops::drop::Drop\">Drop</a> for <a class=\"struct\" href=\"alloc_wg/vec/struct.DrainFilter.html\" title=\"struct alloc_wg::vec::DrainFilter\">DrainFilter</a>&lt;'_, T, F, A&gt; <span class=\"where fmt-newline\">where<br>&nbsp;&nbsp;&nbsp;&nbsp;F: <a class=\"trait\" href=\"https://doc.rust-lang.org/nightly/core/ops/function/trait.FnMut.html\" title=\"trait core::ops::function::FnMut\">FnMut</a>(<a class=\"primitive\" href=\"https://doc.rust-lang.org/nightly/std/primitive.reference.html\">&amp;mut </a>T) -&gt; <a class=\"primitive\" href=\"https://doc.rust-lang.org/nightly/std/primitive.bool.html\">bool</a>,&nbsp;</span>",
     synthetic |-> FALSE,
     types |-> <<"alloc_wg::vec::DrainFilter">>]
  >>

(***************************************************************************)
(* JavaScript values held by the two window properties.  An object value   *)
(* is a reference into the heap: two loads of the same file build two      *)
(* distinct objects with equal contents.                                   *)
(***************************************************************************)
Undefined == [type |-> "undefined"]
Function(t) == [type |-> "function", throws |-> t]
Object(r) == [type |-> "object", ref |-> r]

\* The generated files of the repository: trait.Send.js and part_000 (the
\* implementors of Drop).
Scripts == {"Send", "Drop"}

\* What the host page may leave in window.register_implementors: nothing, or
\* a callback that returns, or a callback that throws.
ConsumerValues == {Undefined, Function(FALSE), Function(TRUE)}

\* The truthiness test of "if (window.register_implementors)": undefined is
\* falsy, a function or an object is truthy.
ToBoolean(v) == v.type \in {"object", "function"}

\* "var implementors = {};"
EmptyObject == [k \in {} |-> <<>>]

\* "o[k] = v"
SetProperty(o, k, v) == [x \in DOMAIN o \cup {k} |-> IF x = k THEN v ELSE o[x]]

Records(s) == IF s = "Send" THEN SendRecords ELSE DropRecords

\* A faulty table construction: the last record of the file is lost.
implementors_LosesLastRecord(s) ==
  SetProperty(EmptyObject, "alloc_wg", SubSeq(Records(s), 1, Len(Records(s)) - 1))

\* Lines 1-2 of a script: the table it builds.
implementors(s) == SetProperty(EmptyObject, "alloc_wg", Records(s))

\* The accesses a script makes to the window object, in program order.
Get(p) == [op |-> "get", prop |-> p, args |-> <<>>]
Set(p, v) == [op |-> "set", prop |-> p, args |-> <<v>>]
Call(p, a) == [op |-> "call", prop |-> p, args |-> a]

\* How a call of the consumer ends: the callback is the host page's.
CallResult(f) == IF f.throws THEN "threw" ELSE "returned"

(***************************************************************************)
(* Faulty variants of the hand-off and of the table construction, each the *)
(* result of one plausible slip in the generator.  They are used only to   *)
(* show that a property below depends on the code it is about.             *)
(***************************************************************************)
\* The consumer is called with no argument.
HandOff_CallsWithoutArgument(reg, pend, table) ==
  IF ToBoolean(reg)
  THEN [register_implementors |-> reg,
        pending_implementors |-> pend,
        ops |-> << Get("register_implementors"),
                   Get("register_implementors"),
                   Call("register_implementors", << >>) >>,
        result |-> CallResult(reg)]
  ELSE [register_implementors |-> reg,
        pending_implementors |-> table,
        ops |-> << Get("register_implementors"),
                   Set("pending_implementors", table) >>,
        result |-> "returned"]

\* The consumer is called once more after it returned.
HandOff_CallsTwice(reg, pend, table) ==
  IF ToBoolean(reg)
  THEN [register_implementors |-> reg,
        pending_implementors |-> pend,
        ops |-> << Get("register_implementors"),
                   Get("register_implementors"),
                   Call("register_implementors", <<table>>) >>
                \o (IF CallResult(reg) = "returned"
                    THEN << Get("register_implementors"),
                            Call("register_implementors", <<table>>) >>
                    ELSE << >>),
        result |-> CallResult(reg)]
  ELSE [register_implementors |-> reg,
        pending_implementors |-> table,
        ops |-> << Get("register_implementors"),
                   Set("pending_implementors", table) >>,
        result |-> "returned"]

\* The call is wrapped in try/catch and a failed call parks the table.
HandOff_FallbackOnThrow(reg, pend, table) ==
  IF ToBoolean(reg)
  THEN IF CallResult(reg) = "threw"
       THEN [register_implementors |-> reg,
             pending_implementors |-> table,
             ops |-> << Get("register_implementors"),
                        Get("register_implementors"),
                        Call("register_implementors", <<table>>),
                        Set("pending_implementors", table) >>,
             result |-> "returned"]
       ELSE [register_implementors |-> reg,
             pending_implementors |-> pend,
             ops |-> << Get("register_implementors"),
                        Get("register_implementors"),
                        Call("register_implementors", <<table>>) >>,
             result |-> "returned"]
  ELSE [register_implementors |-> reg,
        pending_implementors |-> table,
        ops |-> << Get("register_implementors"),
                   Set("pending_implementors", table) >>,
        result |-> "returned"]

\* The table is parked only when the slot is empty: the first table wins.
HandOff_ParksIfEmpty(reg, pend, table) ==
  IF ToBoolean(reg)
  THEN [register_implementors |-> reg,
        pending_implementors |-> pend,
        ops |-> << Get("register_implementors"),
                   Get("register_implementors"),
                   Call("register_implementors", <<table>>) >>,
        result |-> CallResult(reg)]
  ELSE IF ToBoolean(pend)
       THEN [register_implementors |-> reg,
             pending_implementors |-> pend,
             ops |-> << Get("register_implementors"),
                        Get("pending_implementors") >>,
             result |-> "returned"]
       ELSE [register_implementors |-> reg,
             pending_implementors |-> table,
             ops |-> << Get("register_implementors"),
                        Get("pending_implementors"),
                        Set("pending_implementors", table) >>,
             result |-> "returned"]

\* The slot is reset before it is written.
HandOff_WritesTwice(reg, pend, table) ==
  IF ToBoolean(reg)
  THEN [register_implementors |-> reg,
        pending_implementors |-> pend,
        ops |-> << Get("register_implementors"),
                   Get("register_implementors"),
                   Call("register_implementors", <<table>>) >>,
        result |-> CallResult(reg)]
  ELSE [register_implementors |-> reg,
        pending_implementors |-> table,
        ops |-> << Get("register_implementors"),
                   Set("pending_implementors", Undefined),
                   Set("pending_implementors", table) >>,
        result |-> "returned"]

\* Without a consumer the table is dropped instead of parked.
HandOff_ParksNothing(reg, pend, table) ==
  IF ToBoolean(reg)
  THEN [register_implementors |-> reg,
        pending_implementors |-> pend,
        ops |-> << Get("register_implementors"),
                   Get("register_implementors"),
                   Call("register_implementors", <<table>>) >>,
        result |-> CallResult(reg)]
  ELSE [register_implementors |-> reg,
        pending_implementors |-> pend,
        ops |-> << Get("register_implementors") >>,
        result |-> "returned"]

\* The consumer is used only while the slot is empty; otherwise the table
\* is parked although a consumer is present.
HandOff_PendingFirst(reg, pend, table) ==
  IF ToBoolean(reg) /\ ~ToBoolean(pend)
  THEN [register_implementors |-> reg,
        pending_implementors |-> pend,
        ops |-> << Get("register_implementors"),
                   Get("pending_implementors"),
                   Get("register_implementors"),
                   Call("register_implementors", <<table>>) >>,
        result |-> CallResult(reg)]
  ELSE [register_implementors |-> reg,
        pending_implementors |-> table,
        ops |-> << Get("register_implementors"),
                   Set("pending_implementors", table) >>,
        result |-> "returned"]

\* The consumer is unregistered once it has been used.
HandOff_ClearsConsumer(reg, pend, table) ==
  IF ToBoolean(reg)
  THEN [register_implementors |-> IF CallResult(reg) = "returned" THEN Undefined ELSE reg,
        pending_implementors |-> pend,
        ops |-> << Get("register_implementors"),
                   Get("register_implementors"),
                   Call("register_implementors", <<table>>) >>
                \o (IF CallResult(reg) = "returned"
                    THEN << Set("register_implementors", Undefined) >>
                    ELSE << >>),
        result |-> CallResult(reg)]
  ELSE [register_implementors |-> reg,
        pending_implementors |-> table,
        ops |-> << Get("register_implementors"),
                   Set("pending_implementors", table) >>,
        result |-> "returned"]

(***************************************************************************)
(* Lines 4-8 of a script, run with window.register_implementors = reg and  *)
(* window.pending_implementors = pend, table being the reference to the    *)
(* object built by lines 1-2.  The result gives the two window properties  *)
(* after the script, the accesses it made and how it ended.  An exception  *)
(* of the consumer is not caught: it ends the script.                      *)
(***************************************************************************)
HandOff(reg, pend, table) ==
  IF ToBoolean(reg)
  THEN [register_implementors |-> reg,
        pending_implementors |-> pend,
        ops |-> << Get("register_implementors"),
                   Get("register_implementors"),
                   Call("register_implementors", <<table>>) >>,
        result |-> CallResult(reg)]
  ELSE [register_implementors |-> reg,
        pending_implementors |-> table,
        ops |-> << Get("register_implementors"),
                   Set("pending_implementors", table) >>,
        result |-> "returned"]

\* The invocations of the consumer among the accesses of load n, as the
\* consumer sees them.
Invocations(n, ops) ==
  LET cs == SelectSeq(ops, LAMBDA e : e.op = "call")
  IN [i \in 1..Len(cs) |-> [by |-> n, args |-> cs[i].args]]

VARIABLES
  register_implementors,  \* window.register_implementors
  pending_implementors,   \* window.pending_implementors
  heap,                   \* the table objects built so far, by reference
  loads,                  \* one record per script load, in load order
  calls,                  \* the invocations the consumer received, in order
  drains                  \* the drains of the pending slot by the host page

vars == << register_implementors, pending_implementors, heap, loads, calls, drains >>

Init ==
  /\ register_implementors = Undefined
  /\ pending_implementors = Undefined
  /\ heap = << >>
  /\ loads = << >>
  /\ calls = << >>
  /\ drains = << >>

\* The browser evaluates script s: the whole file runs to completion.
Load(s) ==
  /\ Len(loads) < MaxLoads
  /\ LET table == Object(Len(heap) + 1)
         h == HandOff(register_implementors, pending_implementors, table)
     IN /\ heap' = Append(heap, implementors(s))
        /\ register_implementors' = h.register_implementors
        /\ pending_implementors' = h.pending_implementors
        /\ calls' = calls \o Invocations(Len(loads) + 1, h.ops)
        /\ loads' = Append(loads, [script |-> s,
                                   table |-> table,
                                   consumer |-> register_implementors,
                                   before |-> pending_implementors,
                                   after |-> h.pending_implementors,
                                   ops |-> h.ops,
                                   result |-> h.result])
        /\ UNCHANGED drains

\* The host page installs, replaces or removes the consumer.
Register(v) ==
  /\ v # register_implementors
  /\ register_implementors' = v
  /\ UNCHANGED << pending_implementors, heap, loads, calls, drains >>

\* The host page, with a consumer installed, drains the pending slot: it
\* reads the parked table and then invokes the consumer with it, or clears
\* the slot, or does both.  A consumer that throws ends the drain before the
\* slot is cleared.
Drain(invoke, clear) ==
  /\ Len(drains) < MaxDrains
  /\ invoke \/ clear
  /\ ToBoolean(register_implementors)
  /\ ToBoolean(pending_implementors)
  /\ LET result == IF invoke THEN CallResult(register_implementors) ELSE "returned"
         cleared == clear /\ result = "returned"
     IN /\ calls' = IF invoke
                    THEN Append(calls, [by |-> 0, args |-> <<pending_implementors>>])
                    ELSE calls
        /\ pending_implementors' = IF cleared THEN Undefined ELSE pending_implementors
        /\ drains' = Append(drains, [at |-> Len(loads),
                                     arg |-> pending_implementors,
                                     invoked |-> invoke,
                                     result |-> result,
                                     cleared |-> cleared])
        /\ UNCHANGED << register_implementors, heap, loads >>

Next ==
  \/ \E s \in Scripts : Load(s)
  \/ \E v \in ConsumerValues : Register(v)
  \/ \E invoke, clear \in BOOLEAN : Drain(invoke, clear)

Spec == Init /\ [][Next]_vars

(***************************************************************************)
(* Vocabulary of the properties.                                           *)
(***************************************************************************)
\* The table a script is specified to deliver: one key, and under it the
\* records of the file in the file's order.
ExpectedTable(s) == [k \in {"alloc_wg"} |-> Records(s)]

CallsIn(l) == SelectSeq(l.ops, LAMBDA e : e.op = "call")
WritesIn(l) == SelectSeq(l.ops, LAMBDA e : e.op = "set" /\ e.prop = "pending_implementors")
ReadsIn(l) == SelectSeq(l.ops, LAMBDA e : e.op = "get" /\ e.prop = "pending_implementors")
ConsumerPresent(l) == l.consumer.type = "function"
Parked(l) == WritesIn(l) # << >>
\* The invocations the consumer received from load i.
CallsBy(i) == SelectSeq(calls, LAMBDA c : c.by = i)
ScriptCalls == SelectSeq(calls, LAMBDA c : c.by # 0)

(***************************************************************************)
(* C1.  If a consumer is present when a script is loaded, the consumer is  *)
(* invoked during that load, with that script's table as its single        *)
(* argument, and the pending slot is left as it was: empty if it was       *)
(* empty.                                                                  *)
(***************************************************************************)
C1_ConsumerPresentIsInvoked ==
  \A i \in DOMAIN loads :
    LET l == loads[i] IN
    ConsumerPresent(l) =>
      /\ CallsIn(l) = << Call("register_implementors", << l.table >>) >>
      /\ CallsBy(i) = << [by |-> i, args |-> << l.table >>] >>
      /\ heap[l.table.ref] = ExpectedTable(l.script)
      /\ l.after = l.before
      /\ (l.before = Undefined => l.after = Undefined)

C1_Witness ==
  \E i \in DOMAIN loads :
    /\ loads[i].consumer = Function(FALSE)
    /\ loads[i].before = Undefined
    /\ pending_implementors = Undefined
    /\ CallsBy(i) # << >>

(***************************************************************************)
(* C2.  If no consumer is registered when a script is loaded, then after   *)
(* the load the pending slot holds the script's table, the very value the  *)
(* consumer would have been given, and no consumer is invoked by the load. *)
(***************************************************************************)
C2_NoConsumerParksTable ==
  \A i \in DOMAIN loads :
    LET l == loads[i]
        direct == HandOff(Function(FALSE), l.before, l.table)
    IN ~ConsumerPresent(l) =>
         /\ l.after = l.table
         /\ heap[l.after.ref] = ExpectedTable(l.script)
         /\ SelectSeq(direct.ops, LAMBDA e : e.op = "call")
              = << Call("register_implementors", << l.after >>) >>
         /\ CallsIn(l) = << >>
         /\ CallsBy(i) = << >>

C2_Witness ==
  \E i \in DOMAIN loads :
    /\ loads[i].consumer = Undefined
    /\ loads[i].script = "Send"
    /\ pending_implementors = loads[i].table
    /\ calls = << >>

(***************************************************************************)
(* C3.  Whichever receiver gets the table of a load (the consumer, as its  *)
(* argument, or the pending slot), it gets the table the file describes:   *)
(* the single key "alloc_wg", and under it the file's records in the       *)
(* file's order, each with its text, synthetic and types; and the table    *)
(* stays so in every later state, whatever is loaded afterwards.           *)
(***************************************************************************)
C3_TableDeliveredUnchanged ==
  \A i \in DOMAIN loads :
    LET l == loads[i]
        t == heap[l.table.ref]
        rs == Records(l.script)
    IN /\ \/ CallsIn(l) = << Call("register_implementors", << l.table >>) >>
          \/ WritesIn(l) = << Set("pending_implementors", l.table) >>
       /\ DOMAIN t = {"alloc_wg"}
       /\ Len(t["alloc_wg"]) = Len(rs)
       /\ \A k \in 1..Len(rs) :
            /\ t["alloc_wg"][k].text = rs[k].text
            /\ t["alloc_wg"][k].synthetic = rs[k].synthetic
            /\ t["alloc_wg"][k].types = rs[k].types
       /\ Len(rs) = IF l.script = "Send" THEN 17 ELSE 8

C3_Witness ==
  /\ Len(loads) >= 2
  /\ loads[1].script = "Drop" /\ ~ConsumerPresent(loads[1])
  /\ loads[2].script = "Send" /\ ConsumerPresent(loads[2])
  /\ heap[loads[1].table.ref]["alloc_wg"][1].types = << "alloc_wg::boxed::Box" >>

(***************************************************************************)
(* C4.  A load hands its table off exactly once: it invokes the consumer   *)
(* at most once, it does exactly one of {invoke the consumer, write the    *)
(* pending slot}, and the delivery is the last thing it does.              *)
(***************************************************************************)
C4_HandOffExactlyOnce ==
  \A i \in DOMAIN loads :
    LET l == loads[i] IN
    /\ Len(CallsIn(l)) <= 1
    /\ Len(CallsBy(i)) <= 1
    /\ Len(CallsIn(l)) + Len(WritesIn(l)) = 1
    /\ l.ops[Len(l.ops)].op \in {"call", "set"}
    /\ \A k \in 1..(Len(l.ops) - 1) : l.ops[k].op = "get"

C4_Witness ==
  /\ Len(loads) = MaxLoads
  /\ \E i, j \in DOMAIN loads :
       /\ Len(CallsIn(loads[i])) = 1 /\ loads[i].result = "returned"
       /\ Len(WritesIn(loads[j])) = 1

\* All accesses the scripts made to the window object up to load n, in order.
RECURSIVE OpsUpTo(_)
OpsUpTo(n) == IF n = 0 THEN << >> ELSE OpsUpTo(n - 1) \o loads[n].ops

ScriptWrites ==
  SelectSeq(OpsUpTo(Len(loads)), LAMBDA e : e.op = "set" /\ e.prop = "pending_implementors")
ScriptReads ==
  SelectSeq(OpsUpTo(Len(loads)), LAMBDA e : e.op = "get" /\ e.prop = "pending_implementors")

(***************************************************************************)
(* C5, as stated.  Over an execution in which the scripts are loaded, the  *)
(* pending slot is written at most once and read at most once.             *)
(***************************************************************************)
C5_Original ==
  /\ Len(ScriptWrites) <= 1
  /\ Len(ScriptReads) <= 1

(***************************************************************************)
(* C5, amended.  Each load writes the pending slot at most once: once when *)
(* it finds no consumer, not at all when it finds one; no load reads the   *)
(* slot.  Over an execution the scripts write the slot once per load that  *)
(* found no consumer, so possibly more than once.                          *)
(***************************************************************************)
C5_WrittenOncePerConsumerlessLoad ==
  /\ \A i \in DOMAIN loads :
       /\ Len(WritesIn(loads[i])) = IF ToBoolean(loads[i].consumer) THEN 0 ELSE 1
       /\ ReadsIn(loads[i]) = << >>
  /\ Len(ScriptWrites) = Cardinality({i \in DOMAIN loads : ~ToBoolean(loads[i].consumer)})
  /\ ScriptReads = << >>

C5_Witness ==
  /\ Len(ScriptWrites) = 2
  /\ \E i \in DOMAIN loads : ToBoolean(loads[i].consumer)

(***************************************************************************)
(* C6, as stated.  Every table parked in the pending slot by a load that   *)
(* found no consumer is, once the consumer drains the slot, delivered to   *)
(* the consumer, unless the drain cleared the slot.                        *)
(***************************************************************************)
C6_Original ==
  \A d \in DOMAIN drains :
    \A i \in 1..drains[d].at :
      Parked(loads[i]) =>
        \/ drains[d].cleared
        \/ \E c \in DOMAIN calls : calls[c].args = << loads[i].table >>

(***************************************************************************)
(* C6, amended.  If a table was parked by a load that found no consumer    *)
(* and no later load that found no consumer has overwritten it, then at a  *)
(* drain that table is what the slot holds, unchanged, and the slot is     *)
(* cleared or the consumer is invoked with exactly that table.             *)
(***************************************************************************)
C6_DrainDeliversUnoverwrittenParked ==
  \A d \in DOMAIN drains :
    LET dr == drains[d] IN
    \A i \in 1..dr.at :
      ( /\ ~ToBoolean(loads[i].consumer)
        /\ \A j \in (i + 1)..dr.at : ToBoolean(loads[j].consumer) )
      => /\ dr.arg = loads[i].table
         /\ heap[dr.arg.ref] = ExpectedTable(loads[i].script)
         /\ \/ dr.cleared
            \/ \E c \in DOMAIN calls : calls[c] = [by |-> 0, args |-> << loads[i].table >>]

C6_Witness ==
  \E d \in DOMAIN drains :
    /\ drains[d].at >= 2
    /\ loads[1].consumer = Undefined /\ ConsumerPresent(loads[2])
    /\ loads[1].script = "Send"
    /\ drains[d].arg = loads[1].table
    /\ drains[d].invoked /\ ~drains[d].cleared
    /\ pending_implementors = loads[1].table

(***************************************************************************)
(* C7.  A load ends with an exception only when its consumer threw; it     *)
(* then has invoked the consumer exactly once, as its last step, has not   *)
(* written the pending slot, and leaves the slot as it found it.           *)
(***************************************************************************)
C7_ThrowingConsumerNoRecovery ==
  \A i \in DOMAIN loads :
    LET l == loads[i] IN
    /\ l.result = "threw" <=> l.consumer = Function(TRUE)
    /\ l.consumer = Function(TRUE) =>
         /\ CallsIn(l) = << Call("register_implementors", << l.table >>) >>
         /\ Len(CallsBy(i)) = 1
         /\ WritesIn(l) = << >>
         /\ l.after = l.before
         /\ l.ops[Len(l.ops)].op = "call"

C7_Witness ==
  \E i \in DOMAIN loads :
    /\ loads[i].result = "threw"
    /\ loads[i].before = Undefined
    /\ pending_implementors = Undefined

(***************************************************************************)
(* C8.  The pending slot is one cell: after a load that found no consumer  *)
(* it holds exactly that load's table, not a merge with an earlier one,    *)
(* and while every load so far found no consumer and nothing was drained   *)
(* it holds the table of the last load.  When every load found a consumer, *)
(* the consumer was invoked once per load, in load order, each time with   *)
(* that load's table.                                                      *)
(***************************************************************************)
C8_SingleCellNotQueue ==
  /\ \A i \in DOMAIN loads :
       ~ConsumerPresent(loads[i]) =>
         /\ loads[i].after = loads[i].table
         /\ heap[loads[i].after.ref] = ExpectedTable(loads[i].script)
  /\ (loads # << >> /\ drains = << >> /\ \A i \in DOMAIN loads : ~ConsumerPresent(loads[i]))
       => pending_implementors = loads[Len(loads)].table
  /\ (\A i \in DOMAIN loads : ConsumerPresent(loads[i]))
       => /\ ScriptCalls = [i \in 1..Len(loads) |-> [by |-> i, args |-> << loads[i].table >>]]
          /\ \A i \in DOMAIN loads : heap[loads[i].table.ref] = ExpectedTable(loads[i].script)

C8_Witness ==
  /\ Len(loads) >= 2
  /\ loads[1].script = "Send" /\ loads[2].script = "Drop"
  /\ ~ConsumerPresent(loads[1]) /\ ~ConsumerPresent(loads[2])
  /\ pending_implementors = loads[2].table
  /\ heap[pending_implementors.ref] # heap[loads[1].table.ref]

\* The accesses of a load without the values they carry.
Shape(ops) == [k \in 1..Len(ops) |-> << ops[k].op, ops[k].prop >>]

(***************************************************************************)
(* C9.  A load invokes the consumer exactly when register_implementors is  *)
(* truthy at the load and parks the table exactly when it is not; which    *)
(* accesses it makes depends on nothing else (not on the file, not on the  *)
(* pending slot); every invocation made by a script was made by a load     *)
(* that found the consumer.                                                *)
(***************************************************************************)
C9_BranchDecidedByConsumerAlone ==
  /\ \A i \in DOMAIN loads :
       /\ CallsIn(loads[i]) # << >> <=> ToBoolean(loads[i].consumer)
       /\ WritesIn(loads[i]) # << >> <=> ~ToBoolean(loads[i].consumer)
  /\ \A i, j \in DOMAIN loads :
       ToBoolean(loads[i].consumer) = ToBoolean(loads[j].consumer)
         => Shape(loads[i].ops) = Shape(loads[j].ops)
  /\ \A c \in DOMAIN calls :
       calls[c].by # 0 => ToBoolean(loads[calls[c].by].consumer)

C9_Witness ==
  \E i, j \in DOMAIN loads :
    /\ i < j
    /\ loads[i].consumer = Undefined /\ loads[i].script = "Send"
    /\ ConsumerPresent(loads[j]) /\ loads[j].script = "Drop"
    /\ loads[j].before = loads[i].table
    /\ CallsBy(i) = << >>
    /\ CallsBy(j) # << >>

\* A step that is a script load.
LoadStep == Len(loads') = Len(loads) + 1

(***************************************************************************)
(* C10.  Frame of a load: it never changes register_implementors; with a   *)
(* consumer present it leaves pending_implementors as it was, whatever it  *)
(* held; with no consumer it changes nothing but pending_implementors (no  *)
(* invocation is made and no existing table is touched).                   *)
(***************************************************************************)
C10_LoadFrame ==
  [][LoadStep =>
       /\ register_implementors' = register_implementors
       /\ ToBoolean(register_implementors) =>
            pending_implementors' = pending_implementors
       /\ ~ToBoolean(register_implementors) =>
            /\ calls' = calls
            /\ drains' = drains
       /\ SubSeq(heap', 1, Len(heap)) = heap
       /\ SubSeq(loads', 1, Len(loads)) = loads]_vars

C10_Witness ==
  \E i \in DOMAIN loads :
    /\ ConsumerPresent(loads[i])
    /\ loads[i].before.type = "object"
    /\ loads[i].after = loads[i].before
    /\ register_implementors = loads[i].consumer

====
